---- MODULE Spec2Model ----
(***************************************************************************)
(* Model of learn-opengl-rs: the shader-program build pipeline             *)
(* (src/ogl/utils.rs, src/ogl/graphics.rs) and the host program with its   *)
(* camera and input handling (src/main.rs).                                *)
(*                                                                         *)
(* Numbers.  The program computes in f32.  The model computes in fixed     *)
(* point: angles in tenths of a degree, lengths and vector components in   *)
(* thousandths, time in milliseconds, cursor coordinates in whole pixels.  *)
(* Sine and cosine are computed by a rational approximation (Bhaskara),    *)
(* the square root by integer search, divisions round toward zero.         *)
(***************************************************************************)
EXTENDS Integers, Sequences, FiniteSets, TLC

VARIABLES
    pc,            \* position of the program (host) or of the call (unit)
    gl,            \* the graphics driver's state and the calls it received
    build,         \* with_shaders: its two locals, the Result in flight, and
                   \* the driver's last answer (history)
    camera,        \* main's Camera
    input_state,   \* main's InputState
    should_close,  \* the window's should-close flag
    events,        \* the window's event receiver (pending events)
    keys,          \* the window's key state, as get_key reports it
    delta_time,    \* main's delta_time of the current iteration (ms)
    frames,        \* iterations of the render loop started so far
    delivered,     \* window events delivered so far
    frame_log,     \* steps of the current iteration, in the order they ran
    rendered,      \* camera and input state when the view matrix was uploaded
    first_mouse,   \* the first cursor position handled (history)
    last_call      \* the arguments and pre-state of the last unit call (history)

vars == <<pc, gl, build, camera, input_state, should_close, events, keys,
          delta_time, frames, delivered, frame_log, rendered, first_mouse, last_call>>

----------------------------------------------------------------------------
(* Bounds of the model *)

\* iterations of the render loop a behaviour may start
MaxFrames == 2
\* window events a behaviour may deliver
MaxEvents == 2
\* length of the info-log byte vector (511 in the program)
LogLen == 2

(* Program constants *)

\* glm::clamp_scalar bounds of the pitch, tenths of a degree (89.0)
PitchLimit == 890
\* InputState.move_speed, thousandths per second (2.5)
MoveSpeed == 2500
\* InputState.mouse_sensitivity, tenths of a degree per pixel (0.1)
MouseSensitivity == 1
\* number of cube centers drawn per frame
NumCubes == 10
\* fixed-point scale of lengths (1.0)
One == 1000

----------------------------------------------------------------------------
(* Fixed-point arithmetic *)

\* division rounding toward zero, b > 0
QDiv(a, b) == IF a >= 0 THEN a \div b ELSE -((-a) \div b)

Min(a, b) == IF a <= b THEN a ELSE b

RECURSIVE SqrtSearch(_, _, _)
SqrtSearch(n, lo, hi) ==
    IF lo >= hi THEN lo
    ELSE LET mid == (lo + hi + 1) \div 2
         IN IF mid * mid <= n THEN SqrtSearch(n, mid, hi)
            ELSE SqrtSearch(n, lo, mid - 1)

\* floor of the square root
Sqrt(n) == SqrtSearch(n, 0, Min(n, 40000))

\* sine of a half turn, argument in 0..1800 tenths of a degree, result in thousandths
SinHalfTurn(r) ==
    LET p == r * (1800 - r)
    IN 2 * ((2000 * p) \div (4050000 - p))

\* f32::to_radians().sin()
Sin(a) ==
    LET r == a % 3600
    IN IF r <= 1800 THEN SinHalfTurn(r) ELSE -SinHalfTurn(r - 1800)

\* f32::to_radians().cos()
Cos(a) == Sin(a + 900)

Vec3(x, y, z) == [x |-> x, y |-> y, z |-> z]

VAdd(u, v) == Vec3(u.x + v.x, u.y + v.y, u.z + v.z)
VSub(u, v) == Vec3(u.x - v.x, u.y - v.y, u.z - v.z)

\* scalar * vector, both in thousandths
VScale(s, v) == Vec3(QDiv(s * v.x, One), QDiv(s * v.y, One), QDiv(s * v.z, One))

Cross(u, v) ==
    Vec3(QDiv(u.y * v.z - u.z * v.y, One),
         QDiv(u.z * v.x - u.x * v.z, One),
         QDiv(u.x * v.y - u.y * v.x, One))

Norm(v) == Sqrt(v.x * v.x + v.y * v.y + v.z * v.z)

\* the vector every component of which is NaN
NaNVec == Vec3("NaN", "NaN", "NaN")

\* normalize / normalize_mut: a zero vector divides by zero
Normalize(v) ==
    IF Norm(v) = 0 THEN NaNVec
    ELSE Vec3(QDiv(v.x * One, Norm(v)), QDiv(v.y * One, Norm(v)), QDiv(v.z * One, Norm(v)))

----------------------------------------------------------------------------
(* Camera and input state: src/main.rs, src/ogl/graphics.rs *)

\* Option<MouseInputState>: None is the empty sequence, Some(m) is <<m>>
None == <<>>
Some(m) == <<m>>

MouseInputState(x, y) == [x |-> x, y |-> y]

\* glm::clamp_scalar
ClampScalarIdentity(v, lo, hi) == v
ClampScalar(v, lo, hi) == IF v < lo THEN lo ELSE IF v > hi THEN hi ELSE v

\* the front vector of a yaw and a pitch
CameraFront(yaw, pitch) ==
    Normalize(Vec3(QDiv(Cos(yaw) * Cos(pitch), One),
                   Sin(pitch),
                   QDiv(Sin(yaw) * Cos(pitch), One)))

\* Camera::view_matrix: glm::look_at of the eye, the target and the up vector
view_matrix(cam) ==
    [eye |-> cam.position, center |-> VAdd(cam.position, cam.front), up |-> cam.up]

\* the baseline the offsets are taken from: the last position, or, when there
\* is none yet, the position of this event
LastMouseOrigin(inp, x, y) ==
    IF inp.mouse = None THEN MouseInputState(0, 0) ELSE inp.mouse[1]
LastMouse(inp, x, y) ==
    IF inp.mouse = None THEN MouseInputState(x, y) ELSE inp.mouse[1]

\* the last-mouse position the CursorPos arm leaves: that of this event
MouseAfterKept(inp, x, y) ==
    IF inp.mouse = None THEN Some(MouseInputState(x, y)) ELSE inp.mouse
MouseAfter(inp, x, y) == Some(MouseInputState(x, y))

\* process_events, the CursorPos arm
cursor_pos(cam, inp, x, y) ==
    LET last_mouse == LastMouse(inp, x, y)
        x_offset == x - last_mouse.x
        y_offset == last_mouse.y - y
        yaw_offset == x_offset * inp.mouse_sensitivity
        pitch_offset == y_offset * inp.mouse_sensitivity
        yaw == cam.yaw + yaw_offset
        pitch == ClampScalar(cam.pitch + pitch_offset, -PitchLimit, PitchLimit)
    IN [camera |-> [cam EXCEPT !.yaw = yaw, !.pitch = pitch,
                               !.front = CameraFront(yaw, pitch)],
        input_state |-> [inp EXCEPT !.mouse = MouseAfter(inp, x, y)]]

\* the keys process_inputs asks get_key about
MoveKeys == {"W", "S", "A", "D"}

\* camera.front.cross(&camera.up).normalize()
Right(cam) == Normalize(Cross(cam.front, cam.up))

\* process_inputs: the four key tests in their order
StrafeSwapped(pos, cam, ks, camera_speed) ==
    LET p3 == IF "A" \in ks THEN VAdd(pos, VScale(camera_speed, Right(cam))) ELSE pos
    IN IF "D" \in ks THEN VSub(p3, VScale(camera_speed, Right(cam))) ELSE p3
Strafe(pos, cam, ks, camera_speed) ==
    LET p3 == IF "A" \in ks THEN VSub(pos, VScale(camera_speed, Right(cam))) ELSE pos
    IN IF "D" \in ks THEN VAdd(p3, VScale(camera_speed, Right(cam))) ELSE p3

process_inputs(cam, inp, ks, dt) ==
    LET camera_speed == QDiv(dt * inp.move_speed, 1000)
        p1 == IF "W" \in ks THEN VAdd(cam.position, VScale(camera_speed, cam.front))
              ELSE cam.position
        p2 == IF "S" \in ks THEN VSub(p1, VScale(camera_speed, cam.front)) ELSE p1
    IN [cam EXCEPT !.position = Strafe(p2, cam, ks, camera_speed)]

\* main: the Camera and the InputState it constructs
InitCamera ==
    [position |-> Vec3(0, 0, 3000), front |-> Vec3(0, 0, -1000),
     up |-> Vec3(0, 1000, 0), yaw |-> -900, pitch |-> 0]

InitInputState ==
    [mouse |-> None, move_speed |-> MoveSpeed, mouse_sensitivity |-> MouseSensitivity]

----------------------------------------------------------------------------
(* The graphics driver and the build pipeline: src/ogl/utils.rs *)

\* Result<T, String>, and the outcome of a call that panicked instead of returning
NoResult == [tag |-> "None", value |-> 0, msg |-> <<>>]
Ok(v) == [tag |-> "Ok", value |-> v, msg |-> <<>>]
Err(m) == [tag |-> "Err", value |-> 0, msg |-> m]
Panic == [tag |-> "Panic", value |-> 0, msg |-> <<>>]

\* "Shader compilation failed: "
CompilePrefix ==
    <<"S", "h", "a", "d", "e", "r", " ", "c", "o", "m", "p", "i", "l", "a", "t",
      "i", "o", "n", " ", "f", "a", "i", "l", "e", "d", ":", " ">>

\* "Program build failed: "
LinkPrefixCopied == CompilePrefix
LinkPrefix ==
    <<"P", "r", "o", "g", "r", "a", "m", " ", "b", "u", "i", "l", "d", " ",
      "f", "a", "i", "l", "e", "d", ":", " ">>

\* the diagnostic texts the driver may produce: up to one character more than
\* the byte vector holds
DriverLogs ==
    {[i \in 1..n |-> IF i % 2 = 1 THEN "a" ELSE "b"] : n \in 0..(LogLen + 1)}

\* what set_len leaves in the vector: uninitialised bytes, among them the NUL
\* byte and a byte that is not valid UTF-8
GarbageBytes == {"NUL", "a", "BAD"}

\* what the driver answers to a compile or a link
Outcomes ==
    {[ok |-> TRUE, log |-> <<>>, garbage |-> [i \in 1..LogLen |-> "NUL"]]}
    \cup [ok : {FALSE}, log : DriverLogs, garbage : [1..LogLen -> GarbageBytes]]

Call(op, kind, id) == [op |-> op, kind |-> kind, id |-> id]

\* gl::GetShaderInfoLog / gl::GetProgramInfoLog into the vector of LogLen bytes
\* (capacity LogLen + 1): the text, cut to the capacity less the terminator, the
\* terminator if it falls inside the vector, and beyond it what was there
InfoLog(log, garbage) ==
    LET n == Min(Len(log), LogLen)
    IN [i \in 1..LogLen |->
          IF i <= n THEN log[i] ELSE IF i = n + 1 THEN "NUL" ELSE garbage[i]]

\* String::from_utf8(..) succeeds
Utf8(bytes) == \A i \in 1..Len(bytes) : bytes[i] # "BAD"

\* format!("{prefix}{}", String::from_utf8(log).unwrap())
Format(prefix, bytes) == IF Utf8(bytes) THEN Err(prefix \o bytes) ELSE Panic

get_shader_compile_status(o) ==
    IF ~o.ok THEN Format(CompilePrefix, InfoLog(o.log, o.garbage)) ELSE Ok(0)

ValidShader(g, id) == id \in 1..Len(g.shaders)

build_shader(g, kind, o) ==
    LET shader_id == Len(g.shaders) + 1
        status == get_shader_compile_status(o)
        log_calls == IF o.ok THEN <<>> ELSE <<Call("GetShaderInfoLog", kind, shader_id)>>
    IN [gl |-> [g EXCEPT
                 !.shaders = Append(@, [kind |-> kind, compiled |-> o.ok,
                                        deletes |-> 0, attaches |-> 0]),
                 !.calls = @ \o <<Call("CreateShader", kind, shader_id),
                                  Call("ShaderSource", kind, shader_id),
                                  Call("CompileShader", kind, shader_id),
                                  Call("GetShaderiv", kind, shader_id)>> \o log_calls],
        res |-> IF status.tag = "Ok" THEN Ok(shader_id) ELSE status]

clean_shader(g, shader_id) ==
    [g EXCEPT
      !.shaders = [i \in 1..Len(@) |->
                     IF i = shader_id THEN [@[i] EXCEPT !.deletes = @ + 1] ELSE @[i]],
      !.calls = Append(@, Call("DeleteShader", "", shader_id))]

\* gl::AttachShader
AttachShader(shaders, id) ==
    [i \in 1..Len(shaders) |->
       IF i = id THEN [shaders[i] EXCEPT !.attaches = @ + 1] ELSE shaders[i]]

\* the driver links only compiled stages
Linked(g, v, f, o) ==
    /\ o.ok
    /\ ValidShader(g, v) /\ g.shaders[v].compiled
    /\ ValidShader(g, f) /\ g.shaders[f].compiled

build_program(g, vertex_shader_id, fragment_shader_id, o) ==
    LET program_id == Len(g.programs) + 1
        linked == Linked(g, vertex_shader_id, fragment_shader_id, o)
        log_calls == IF linked THEN <<>> ELSE <<Call("GetProgramInfoLog", "", program_id)>>
    IN [gl |-> [g EXCEPT
                 !.shaders = AttachShader(AttachShader(@, vertex_shader_id),
                                          fragment_shader_id),
                 !.programs = Append(@, [attached |-> <<vertex_shader_id,
                                                       fragment_shader_id>>,
                                         linked |-> linked]),
                 !.calls = @ \o <<Call("CreateProgram", "", program_id),
                                  Call("AttachShader", "", vertex_shader_id),
                                  Call("AttachShader", "", fragment_shader_id),
                                  Call("LinkProgram", "", program_id),
                                  Call("GetProgramiv", "", program_id)>> \o log_calls],
        res |-> IF linked THEN Ok(program_id)
                ELSE Format(LinkPrefix, InfoLog(o.log, o.garbage))]

----------------------------------------------------------------------------
(* ShaderProgram: src/ogl/graphics.rs *)

\* Result::and_then in with_shaders: the next closure runs on Ok only; an Err
\* is what with_shaders returns; a panic unwinds through main
AndThenAlways(res, next) == IF res.tag = "Panic" THEN "aborted" ELSE next
AndThen(res, next) ==
    IF res.tag = "Ok" THEN next
    ELSE IF res.tag = "Panic" THEN "aborted" ELSE "expect"

\* with_shaders, line 38: build_shader(vertex_shader_src, gl::VERTEX_SHADER)
BuildVertex ==
    /\ pc = "build_vertex"
    /\ \E o \in Outcomes :
         LET r == build_shader(gl, "VERTEX_SHADER", o)
         IN /\ gl' = r.gl
            /\ build' = [build EXCEPT !.res = r.res, !.answer = o]
            /\ pc' = AndThen(r.res, "build_fragment")
    /\ UNCHANGED <<camera, input_state, should_close, events, keys, delta_time,
                   frames, delivered, frame_log, rendered, first_mouse, last_call>>

\* with_shaders, lines 39-42: the first closure
BuildFragment ==
    /\ pc = "build_fragment"
    /\ \E o \in Outcomes :
         LET r == build_shader(gl, "FRAGMENT_SHADER", o)
         IN /\ gl' = r.gl
            /\ build' = [build EXCEPT !.vertex_shader = build.res.value, !.res = r.res,
                                      !.answer = o]
            /\ pc' = AndThen(r.res, "build_program")
    /\ UNCHANGED <<camera, input_state, should_close, events, keys, delta_time,
                   frames, delivered, frame_log, rendered, first_mouse, last_call>>

\* with_shaders, lines 43-46: the second closure
BuildProgram ==
    /\ pc = "build_program"
    /\ \E o \in Outcomes :
         LET r == build_program(gl, build.vertex_shader, build.res.value, o)
         IN /\ gl' = r.gl
            /\ build' = [build EXCEPT !.fragment_shader = build.res.value, !.res = r.res,
                                      !.answer = o]
            /\ pc' = AndThen(r.res, "clean")
    /\ UNCHANGED <<camera, input_state, should_close, events, keys, delta_time,
                   frames, delivered, frame_log, rendered, first_mouse, last_call>>

\* with_shaders, lines 47-51: the third closure
CleanTwice(g, vertex_shader, fragment_shader) ==
    clean_shader(clean_shader(g, vertex_shader), vertex_shader)
Clean(g, vertex_shader, fragment_shader) ==
    clean_shader(clean_shader(g, vertex_shader), fragment_shader)

CleanShaders ==
    /\ pc = "clean"
    /\ gl' = Clean(gl, build.vertex_shader, build.fragment_shader)
    /\ build' = [build EXCEPT !.res = Ok(build.res.value)]
    /\ pc' = "expect"
    /\ UNCHANGED <<camera, input_state, should_close, events, keys, delta_time,
                   frames, delivered, frame_log, rendered, first_mouse, last_call>>

use_programNothing(g, id) ==
    [g EXCEPT !.active = 0, !.calls = Append(@, Call("UseProgram", "", id))]
use_program(g, id) ==
    [g EXCEPT !.active = id, !.calls = Append(@, Call("UseProgram", "", id))]

\* gl::Uniform*(gl::GetUniformLocation(self.id, name), value): the value lands in
\* the program that is active; with another or no program active it is lost
Uniform(g, id, name, value) ==
    IF g.active = id /\ id # 0
    THEN [g EXCEPT !.uniforms[name] = value,
                   !.calls = Append(@, Call("Uniform", name, id))]
    ELSE [g EXCEPT !.stray = @ + 1,
                   !.calls = Append(@, Call("Uniform", name, id))]

set_int(g, id, name, value) == Uniform(g, id, name, value)
set_mat4f(g, id, name, value) == Uniform(g, id, name, value)

----------------------------------------------------------------------------
(* The host program: src/main.rs *)

\* Result::expect in setup_program and setup_scene: anything but Ok panics
ExpectAnything(res, next) == next
Expect(res, next) == IF res.tag = "Ok" THEN next ELSE "aborted"

\* setup_program, lines 106-109: with_shaders has returned
SetupProgram ==
    /\ pc = "expect"
    /\ pc' = Expect(build.res, "setup_scene")
    /\ UNCHANGED <<gl, build, camera, input_state, should_close, events, keys,
                   delta_time, frames, delivered, frame_log, rendered, first_mouse, last_call>>

\* setup_scene, lines 115-238: the vertex data and the two textures; a texture
\* file that does not load panics
SetupScene ==
    /\ pc = "setup_scene"
    /\ \E loaded \in BOOLEAN :
         /\ gl' = [gl EXCEPT !.calls = Append(@, Call("BufferData", "", 0))]
         /\ pc' = IF loaded THEN "bind_samplers" ELSE "aborted"
    /\ UNCHANGED <<build, camera, input_state, should_close, events, keys,
                   delta_time, frames, delivered, frame_log, rendered, first_mouse, last_call>>

\* setup_scene, lines 240-242
BindSamplers ==
    /\ pc = "bind_samplers"
    /\ LET id == build.res.value
       IN gl' = set_int(set_int(use_program(gl, id), id, "a_texture1", 0),
                        id, "a_texture2", 1)
    /\ pc' = "projection"
    /\ UNCHANGED <<build, camera, input_state, should_close, events, keys,
                   delta_time, frames, delivered, frame_log, rendered, first_mouse, last_call>>

\* main, lines 292-314: the projection upload, the camera and the input state
SetupCoordinateSystems ==
    /\ pc = "projection"
    /\ gl' = set_mat4f(gl, build.res.value, "projection_from_view", 1)
    /\ camera' = InitCamera
    /\ input_state' = InitInputState
    /\ pc' = "loop_head"
    /\ UNCHANGED <<build, should_close, events, keys, delta_time, frames, delivered,
                   frame_log, rendered, first_mouse, last_call>>

\* the body of the render loop, in program order
LoopBodyRenderEarly ==
    <<"process_events", "render", "process_inputs", "swap_buffers", "poll_events">>
LoopBody ==
    <<"process_events", "process_inputs", "render", "swap_buffers", "poll_events">>

NextStep(p) ==
    LET i == CHOOSE k \in 1..Len(LoopBody) : LoopBody[k] = p
    IN IF i = Len(LoopBody) THEN "loop_head" ELSE LoopBody[i + 1]

\* what glfw's clock may give for current_frame - last_frame, in ms
Deltas == {400, 1000}

\* while !window.should_close(), the test
WhileTestIgnored(flag) == TRUE
WhileTest(flag) == ~flag

\* line 316 true, and lines 317-331
LoopHead ==
    /\ pc = "loop_head"
    /\ WhileTest(should_close)
    /\ frames < MaxFrames
    /\ \E dt \in Deltas : delta_time' = dt
    /\ frames' = frames + 1
    /\ frame_log' = <<>>
    /\ rendered' = None
    /\ pc' = LoopBody[1]
    /\ UNCHANGED <<gl, build, camera, input_state, should_close, events, keys,
                   delivered, first_mouse, last_call>>

\* line 316 false: main returns
LoopExit ==
    /\ pc = "loop_head"
    /\ ~WhileTest(should_close)
    /\ pc' = "exit"
    /\ UNCHANGED <<gl, build, camera, input_state, should_close, events, keys,
                   delta_time, frames, delivered, frame_log, rendered, first_mouse, last_call>>

\* the window events the program polls for
Event(type, key, x, y) == [type |-> type, key |-> key, x |-> x, y |-> y]

CursorCoords == {<<0, 0>>, <<900, -700>>, <<-900, 700>>}

Events ==
    {Event("FramebufferSize", "", 800, 600), Event("Key", "Escape", 0, 0),
     Event("Key", "W", 0, 0)}
    \cup {Event("CursorPos", "", c[1], c[2]) : c \in CursorCoords}

\* the key states a poll may leave
KeyStates == {{}, {"W"}, {"S", "A"}, {"D"}}

RECURSIVE SeqsUpTo(_, _)
SeqsUpTo(S, n) ==
    IF n = 0 THEN {<<>>}
    ELSE LET shorter == SeqsUpTo(S, n - 1)
         IN shorter \cup {Append(q, e) : q \in shorter, e \in S}

\* process_events, lines 384-426: one event of the flush
HandleEvent ==
    /\ pc = "process_events"
    /\ events # <<>>
    /\ LET event == Head(events)
           r == cursor_pos(camera, input_state, event.x, event.y)
       IN /\ events' = Tail(events)
          /\ IF event.type = "FramebufferSize"
             THEN /\ gl' = [gl EXCEPT !.calls = Append(@, Call("Viewport", "", 0))]
                  /\ UNCHANGED <<should_close, camera, input_state, first_mouse>>
             ELSE IF event.type = "Key" /\ event.key = "Escape"
             THEN /\ should_close' = TRUE
                  /\ UNCHANGED <<gl, camera, input_state, first_mouse>>
             ELSE IF event.type = "CursorPos"
             THEN /\ camera' = r.camera
                  /\ input_state' = r.input_state
                  /\ first_mouse' = IF first_mouse = None
                                    THEN Some(MouseInputState(event.x, event.y))
                                    ELSE first_mouse
                  /\ UNCHANGED <<gl, should_close>>
             ELSE UNCHANGED <<gl, should_close, camera, input_state, first_mouse>>
    /\ UNCHANGED <<pc, build, keys, delta_time, frames, delivered, frame_log, rendered, last_call>>

\* process_events: the flush is empty
EndEvents ==
    /\ pc = "process_events"
    /\ events = <<>>
    /\ frame_log' = Append(frame_log, "process_events")
    /\ pc' = NextStep(pc)
    /\ UNCHANGED <<gl, build, camera, input_state, should_close, events, keys,
                   delta_time, frames, delivered, rendered, first_mouse, last_call>>

\* main, line 335
ProcessInputs ==
    /\ pc = "process_inputs"
    /\ camera' = process_inputs(camera, input_state, keys, delta_time)
    /\ frame_log' = Append(frame_log, "process_inputs")
    /\ pc' = NextStep(pc)
    /\ UNCHANGED <<gl, build, input_state, should_close, events, keys, delta_time,
                   frames, delivered, rendered, first_mouse, last_call>>

\* main, lines 352-364: one cube after the other
RECURSIVE DrawCubes(_, _, _)
DrawCubes(g, id, i) ==
    IF i = NumCubes THEN g
    ELSE LET g1 == set_mat4f(g, id, "world_from_object", i)
         IN DrawCubes([g1 EXCEPT !.calls = Append(@, Call("DrawArrays", "", i))],
                      id, i + 1)

\* main, lines 338-365
Render ==
    /\ pc = "render"
    /\ LET id == build.res.value
           g1 == use_program([gl EXCEPT !.calls = Append(@, Call("Clear", "", 0))], id)
           g2 == set_mat4f(g1, id, "view_from_world", Some(view_matrix(camera)))
       IN gl' = DrawCubes(g2, id, 0)
    /\ rendered' = Some([camera |-> camera, input_state |-> input_state])
    /\ frame_log' = Append(frame_log, "render")
    /\ pc' = NextStep(pc)
    /\ UNCHANGED <<build, camera, input_state, should_close, events, keys,
                   delta_time, frames, delivered, first_mouse, last_call>>

\* main, lines 368-373
SwapBuffers ==
    /\ pc = "swap_buffers"
    /\ frame_log' = Append(frame_log, "swap_buffers")
    /\ pc' = NextStep(pc)
    /\ UNCHANGED <<gl, build, camera, input_state, should_close, events, keys,
                   delta_time, frames, delivered, rendered, first_mouse, last_call>>

\* main, line 374: glfw delivers the pending window events, updates the key
\* state, and sets the flag when the user closes the window
PollEvents ==
    /\ pc = "poll_events"
    /\ \E batch \in SeqsUpTo(Events, MaxEvents - delivered), ks \in KeyStates,
          close \in BOOLEAN :
         /\ events' = events \o batch
         /\ delivered' = delivered + Len(batch)
         /\ keys' = ks
         /\ should_close' = (should_close \/ close)
    /\ frame_log' = Append(frame_log, "poll_events")
    /\ pc' = NextStep(pc)
    /\ UNCHANGED <<gl, build, camera, input_state, delta_time, frames, rendered,
                   first_mouse, last_call>>

InitGl ==
    [shaders |-> <<>>, programs |-> <<>>, active |-> 0, stray |-> 0, calls |-> <<>>,
     uniforms |-> [a_texture1 |-> -1, a_texture2 |-> -1, projection_from_view |-> 0,
                   view_from_world |-> None, world_from_object |-> -1]]

Success == [ok |-> TRUE, log |-> <<>>, garbage |-> [i \in 1..LogLen |-> "NUL"]]

InitBuild ==
    [vertex_shader |-> 0, fragment_shader |-> 0, res |-> NoResult, answer |-> Success]

NoCall == [op |-> "", camera |-> InitCamera, input_state |-> InitInputState,
           x |-> 0, y |-> 0, keys |-> {}, dt |-> 0]

\* main entered setup_scene: the window exists, nothing is built yet
Init ==
    /\ pc = "build_vertex"
    /\ gl = InitGl
    /\ build = InitBuild
    /\ camera = InitCamera
    /\ input_state = InitInputState
    /\ should_close = FALSE
    /\ events = <<>>
    /\ keys = {}
    /\ delta_time = 0
    /\ frames = 0
    /\ delivered = 0
    /\ frame_log = <<>>
    /\ rendered = None
    /\ first_mouse = None
    /\ last_call = NoCall

Next ==
    \/ BuildVertex
    \/ BuildFragment
    \/ BuildProgram
    \/ CleanShaders
    \/ SetupProgram
    \/ SetupScene
    \/ BindSamplers
    \/ SetupCoordinateSystems
    \/ LoopHead
    \/ LoopExit
    \/ HandleEvent
    \/ EndEvents
    \/ ProcessInputs
    \/ Render
    \/ SwapBuffers
    \/ PollEvents

Spec == Init /\ [][Next]_vars

----------------------------------------------------------------------------
(* The camera operations on their own: one call of the CursorPos arm or of *)
(* process_inputs from any camera and input state of a bounded set.        *)

UnitFronts(yaw, pitch) == {CameraFront(yaw, pitch), Vec3(0, 0, -1000)}

UnitCamerasAt(yaw, pitch) ==
    [position : {Vec3(0, 0, 0), Vec3(0, 0, 3000)},
     front : UnitFronts(yaw, pitch),
     up : {Vec3(0, 1000, 0), Vec3(0, 1000, 1000)},
     yaw : {yaw}, pitch : {pitch}]

UnitCameras ==
    UNION {UnitCamerasAt(a[1], a[2]) :
             a \in {-900, 0, 450} \X {-1200, 0, 300, 890, 950}}

UnitInputs ==
    [mouse : {None, Some(MouseInputState(100, 50))},
     move_speed : {MoveSpeed}, mouse_sensitivity : {MouseSensitivity, 2}]

UnitInit ==
    /\ pc = "call"
    /\ camera \in UnitCameras
    /\ input_state \in UnitInputs
    /\ gl = InitGl
    /\ build = InitBuild
    /\ should_close = FALSE
    /\ events = <<>>
    /\ keys = {}
    /\ delta_time = 0
    /\ frames = 0
    /\ delivered = 0
    /\ frame_log = <<>>
    /\ rendered = None
    /\ first_mouse = None
    /\ last_call = NoCall

\* process_events is handed one CursorPos event
CallCursorPos ==
    /\ pc = "call"
    /\ \E c \in CursorCoords \cup {<<100, 50>>} :
         LET r == cursor_pos(camera, input_state, c[1], c[2])
         IN /\ camera' = r.camera
            /\ input_state' = r.input_state
            /\ last_call' = [op |-> "cursor_pos", camera |-> camera,
                             input_state |-> input_state, x |-> c[1], y |-> c[2],
                             keys |-> {}, dt |-> 0]
    /\ pc' = "returned"
    /\ UNCHANGED <<gl, build, should_close, events, keys, delta_time, frames,
                   delivered, frame_log, rendered, first_mouse>>

\* process_inputs is called with some keys pressed and some frame time
CallProcessInputs ==
    /\ pc = "call"
    /\ \E ks \in SUBSET MoveKeys, dt \in Deltas \cup {0} :
         /\ keys' = ks
         /\ delta_time' = dt
         /\ camera' = process_inputs(camera, input_state, ks, dt)
         /\ last_call' = [op |-> "process_inputs", camera |-> camera,
                          input_state |-> input_state, x |-> 0, y |-> 0,
                          keys |-> ks, dt |-> dt]
    /\ pc' = "returned"
    /\ UNCHANGED <<gl, build, input_state, should_close, events, frames,
                   delivered, frame_log, rendered, first_mouse>>

UnitNext == CallCursorPos \/ CallProcessInputs

SpecCamera == UnitInit /\ [][UnitNext]_vars

----------------------------------------------------------------------------
(* Properties of the build pipeline *)

\* with_shaders is running
Building == pc \in {"build_vertex", "build_fragment", "build_program", "clean"}

Called(op) == \E i \in 1..Len(gl.calls) : gl.calls[i].op = op
CalledOn(op, id) ==
    \E i \in 1..Len(gl.calls) : gl.calls[i].op = op /\ gl.calls[i].id = id
Stages(kind) == {i \in 1..Len(gl.shaders) : gl.shaders[i].kind = kind}
Compiled(kind) == \E i \in Stages(kind) : gl.shaders[i].compiled
Failed(kind) == \E i \in Stages(kind) : ~gl.shaders[i].compiled

C2_NoStageLeftOnError ==
    (~Building /\ build.res.tag = "Err")
        => \A i \in 1..Len(gl.shaders) : gl.shaders[i].deletes >= 1

\* position of the first call of an operation on a handle, 0 if there is none
FirstCall(op, id) ==
    IF CalledOn(op, id)
    THEN CHOOSE i \in 1..Len(gl.calls) :
           /\ gl.calls[i].op = op /\ gl.calls[i].id = id
           /\ \A j \in 1..(i - 1) : ~(gl.calls[j].op = op /\ gl.calls[j].id = id)
    ELSE 0

\* C3: no stage handle is deleted twice or attached twice; a stage is deleted
\* only after a link was attempted; and when with_shaders has returned Ok, the
\* vertex and the fragment stage are two handles, each attached once and
\* deleted once, the deletions after the link.
C3_StagesDeletedOnce ==
    /\ \A i \in 1..Len(gl.shaders) :
         /\ gl.shaders[i].deletes <= 1
         /\ gl.shaders[i].attaches <= 1
    /\ \A i \in 1..Len(gl.calls) :
         gl.calls[i].op = "DeleteShader"
           => \E j \in 1..(i - 1) : gl.calls[j].op = "LinkProgram"
    /\ (~Building /\ build.res.tag = "Ok")
         => /\ build.vertex_shader \in Stages("VERTEX_SHADER")
            /\ build.fragment_shader \in Stages("FRAGMENT_SHADER")
            /\ \A h \in {build.vertex_shader, build.fragment_shader} :
                 /\ gl.shaders[h].deletes = 1
                 /\ gl.shaders[h].attaches = 1
                 /\ FirstCall("LinkProgram", build.res.value)
                      < FirstCall("DeleteShader", h)
            /\ gl.programs[build.res.value].linked

C3_BuiltAndCleaned ==
    /\ pc = "expect"
    /\ build.res.tag = "Ok"
    /\ gl.shaders[build.vertex_shader].deletes = 1
    /\ gl.shaders[build.fragment_shader].deletes = 1

\* the step of with_shaders that failed
FailedStep ==
    IF Failed("VERTEX_SHADER") THEN "vertex"
    ELSE IF Failed("FRAGMENT_SHADER") THEN "fragment" ELSE "link"

\* the value with_shaders returns when the given step fails with the driver
\* answering o
ErrorOf(step, o) ==
    LET v == build_shader(InitGl, "VERTEX_SHADER", IF step = "vertex" THEN o ELSE Success)
        f == build_shader(v.gl, "FRAGMENT_SHADER", IF step = "fragment" THEN o ELSE Success)
        p == build_program(f.gl, 1, 2, o)
    IN IF step = "vertex" THEN v.res ELSE IF step = "fragment" THEN f.res ELSE p.res

Steps == {"vertex", "fragment", "link"}

Prefixed(msg, prefix) ==
    Len(msg) >= Len(prefix) /\ SubSeq(msg, 1, Len(prefix)) = prefix

----------------------------------------------------------------------------
(* Properties of the camera operations *)

FirstMoveReturned ==
    /\ pc = "returned"
    /\ last_call.op = "cursor_pos"
    /\ last_call.input_state.mouse = None

Pressed(key, ks, speed, direction) ==
    IF key \in ks THEN VScale(speed, direction) ELSE Vec3(0, 0, 0)

\* C7: one movement tick moves the position by speed*front for W, -speed*front
\* for S, -speed*normalize(front x up) for A and +speed*normalize(front x up)
\* for D, summed over the pressed keys, with speed = deltaTime * moveSpeed, and
\* changes nothing else; W alone from the origin with front (0,0,-1),
\* up (0,1,0), deltaTime 1 and moveSpeed 2.5 gives (0,0,-2.5); no key leaves
\* the position unchanged.
C7_TickMovesPosition ==
    (pc = "returned" /\ last_call.op = "process_inputs")
        => LET before == last_call.camera
               speed == QDiv(last_call.dt * last_call.input_state.move_speed, 1000)
               side == Normalize(Cross(before.front, before.up))
               forward == Pressed("W", last_call.keys, speed, before.front)
               backward == Pressed("S", last_call.keys, speed, before.front)
               left == Pressed("A", last_call.keys, speed, side)
               right == Pressed("D", last_call.keys, speed, side)
           IN /\ camera.position
                   = VAdd(VSub(VSub(VAdd(before.position, forward), backward), left),
                          right)
              /\ camera = [before EXCEPT !.position = camera.position]
              /\ last_call.keys = {} => camera.position = before.position
              /\ (/\ last_call.keys = {"W"}
                  /\ before.position = Vec3(0, 0, 0)
                  /\ before.front = Vec3(0, 0, -1000)
                  /\ before.up = Vec3(0, 1000, 0)
                  /\ last_call.dt = 1000
                  /\ last_call.input_state.move_speed = 2500)
                   => camera.position = Vec3(0, 0, -2500)

C7_ForwardFromOrigin ==
    /\ pc = "returned"
    /\ last_call.op = "process_inputs"
    /\ last_call.keys = {"W"}
    /\ last_call.dt = 1000
    /\ last_call.camera.position = Vec3(0, 0, 0)
    /\ last_call.camera.front = Vec3(0, 0, -1000)
    /\ last_call.camera.up = Vec3(0, 1000, 0)
    /\ camera.position = Vec3(0, 0, -2500)

----------------------------------------------------------------------------
(* Properties of the host program *)

\* C6: from the host's camera, whatever cursor events and movement ticks
\* happen, the pitch stays within [-89, 89], and the yaw is the initial yaw
\* plus the sensitivity times the whole horizontal travel of the cursor since
\* its first position, with no limit applied.
C6_PitchClampedYawFree ==
    /\ camera.pitch \in (-PitchLimit)..PitchLimit
    /\ camera.yaw
         = InitCamera.yaw
           + (IF input_state.mouse = None THEN 0
              ELSE (input_state.mouse[1].x - first_mouse[1].x)
                     * input_state.mouse_sensitivity)

C6_PitchAtLimitYawBeyond ==
    /\ camera.pitch = -PitchLimit
    /\ camera.yaw < -2 * PitchLimit
    /\ camera.position # InitCamera.position

FullFrame ==
    <<"process_events", "process_inputs", "render", "swap_buffers", "poll_events">>

\* C8: the steps of an iteration run in the order events, movement, draw,
\* present (and then the poll); the movement update runs with no event
\* pending; and from the view-matrix upload to the end of the iteration the
\* uploaded view matrix is that of the camera as it is, the camera and the
\* input state being those the upload saw.
C8_FrameOrder ==
    /\ Len(frame_log) <= Len(FullFrame)
    /\ frame_log = SubSeq(FullFrame, 1, Len(frame_log))
    /\ pc = "process_inputs" => events = <<>>
    /\ Len(frame_log) \in 1..4 => events = <<>>
    /\ Len(frame_log) >= 3
         => /\ gl.uniforms.view_from_world = Some(view_matrix(camera))
            /\ rendered = Some([camera |-> camera, input_state |-> input_state])

C8_PresentedAfterInput ==
    /\ frame_log = SubSeq(FullFrame, 1, 4)
    /\ camera.position # InitCamera.position
    /\ camera.yaw # InitCamera.yaw
    /\ gl.uniforms.view_from_world = Some(view_matrix(camera))

\* C9: when the build has returned an error (or panicked), the host is about
\* to abort or has aborted; it has built once, has activated no program,
\* written no uniform, started no iteration and drawn nothing.
C9_BuildErrorIsFatal ==
    (~Building /\ build.res.tag \in {"Err", "Panic"})
        => /\ pc \in {"expect", "aborted"}
           /\ Cardinality({i \in 1..Len(gl.calls) :
                             /\ gl.calls[i].op = "CreateShader"
                             /\ gl.calls[i].kind = "VERTEX_SHADER"}) = 1
           /\ gl.active = 0
           /\ ~Called("UseProgram")
           /\ ~Called("Uniform")
           /\ ~Called("DrawArrays")
           /\ frames = 0

C9_AbortedOnBuildError ==
    /\ pc = "aborted"
    /\ build.res.tag = "Err"

\* C10: the should-close flag is never cleared; main leaves the loop only at
\* the loop head and only with the flag set; no iteration starts with the flag
\* set; and with the flag set the iteration goes on: every pending event is
\* handled in turn (a cursor event still moves the last-mouse position), and
\* the steps after the events follow in their order.
C10_CloseCheckedAtLoopHead ==
    /\ [][should_close => should_close']_vars
    /\ [][pc' = "exit" => (pc = "loop_head" /\ should_close)]_vars
    /\ [][frames' # frames => ~should_close]_vars
    /\ [][(pc = "process_events" /\ events # <<>>)
            => (/\ pc' = "process_events"
                /\ events' = Tail(events)
                /\ Head(events).type = "CursorPos"
                     => input_state'.mouse
                          = Some(MouseInputState(Head(events).x, Head(events).y)))]_vars
    /\ [][(should_close /\ pc \in {"process_events", "process_inputs", "render",
                                    "swap_buffers", "poll_events"})
            => \/ pc' = pc
               \/ \E i \in 1..Len(FullFrame) :
                    /\ FullFrame[i] = pc
                    /\ pc' = IF i = Len(FullFrame) THEN "loop_head" ELSE FullFrame[i + 1]]_vars

C10_EscapeWithEventsPending ==
    /\ pc = "process_events"
    /\ should_close
    /\ events # <<>>

\* a cursor-move event is being handled
CursorStep ==
    /\ pc = "process_events"
    /\ events # <<>>
    /\ Head(events).type = "CursorPos"

\* C11: the last-mouse position is empty exactly as long as no cursor-move
\* event was handled; once populated it is never empty again; handling a
\* cursor-move event leaves it at that event's position; every other step
\* (a resize or key event, a movement tick, any other step of the host) leaves
\* it as it is.
C11_LastMouseFollowsCursor ==
    /\ [](input_state.mouse = None <=> first_mouse = None)
    /\ [][input_state.mouse # None => input_state'.mouse # None]_vars
    /\ [][CursorStep
            => input_state'.mouse
                 = Some(MouseInputState(Head(events).x, Head(events).y))]_vars
    /\ [][~CursorStep => input_state'.mouse = input_state.mouse]_vars

C11_LastMouseOverwritten ==
    /\ input_state.mouse # None
    /\ input_state.mouse # first_mouse
    /\ camera.position # InitCamera.position

\* C12: a uniform setter called with no program active activates nothing and
\* its value is lost; in the host no write is lost: every uniform write and
\* every activation names the one program the build returned, and whenever a
\* uniform has been written that program has been activated and is the
\* active one.
C12_UniformsWrittenWhileActive ==
    /\ LET g == [gl EXCEPT !.active = 0]
           w == set_mat4f(set_int(g, 1, "a_texture1", 0), 1, "view_from_world", None)
       IN /\ w.active = 0
          /\ w.uniforms = g.uniforms
          /\ w.stray = g.stray + 2
    /\ gl.stray = 0
    /\ \A i \in 1..Len(gl.calls) :
         gl.calls[i].op \in {"Uniform", "UseProgram"}
           => (~Building /\ build.res.tag = "Ok" /\ gl.calls[i].id = build.res.value)
    /\ Called("Uniform")
         => /\ Called("UseProgram")
            /\ gl.active = build.res.value
            /\ gl.active # 0

C12_AllUniformsWritten ==
    /\ pc = "swap_buffers"
    /\ gl.stray = 0
    /\ gl.uniforms.a_texture1 = 0
    /\ gl.uniforms.a_texture2 = 1
    /\ gl.uniforms.projection_from_view = 1
    /\ gl.uniforms.view_from_world = Some(view_matrix(camera))
    /\ gl.uniforms.world_from_object = NumCubes - 1

====
